---- MODULE Spec2Model ----
(***************************************************************************)
(* Model of the screentime-analyzer pipeline:                              *)
(*   - the server-side SyncStore (screentime_api.py: init_server_db,       *)
(*     insert_usage_records, upload_usage_data) under concurrent callers;  *)
(*   - the snapshot life cycle of the three callers of                     *)
(*     copy_database_to_temp (CLI main, sync main, API get_usage_data);    *)
(*   - the pure aggregation function aggregate_by_app;                     *)
(*   - the daily breakdown (get_daily_breakdown, print_daily_summary);     *)
(*   - the epoch conversion between Apple time and naive local datetimes;  *)
(*   - the extraction queries get_app_usage and get_server_usage;          *)
(*   - the API key check of the web transport (verify_api_key);            *)
(*   - the summary export (format_duration, export_csv, export_data).      *)
(* Each part has its own specification over the shared variables; the      *)
(* variables of the other parts stay at their initial values.              *)
(***************************************************************************)
EXTENDS Integers, Sequences, FiniteSets, TLC

\* ------------------------------------------------------------------ bounds
\* longest batch of records one POST /upload carries
MaxBatch == 2
\* number of POST /upload requests that are started in one behaviour
MaxCalls == 2
\* number of CLI, sync or API invocations started in one behaviour
MaxRuns == 2
\* longest record sequence given to aggregate_by_app
MaxRecords == 3
\* largest top_apps / top_n asked of the daily breakdown
MaxTop == 2
\* half hours past the start of a clock change that a datetime may lie
MaxHalfHours == 3
\* largest number of rows of table ZOBJECT
MaxRows == 3
\* number of HTTP requests answered in one behaviour
MaxRequests == 2
\* number of times the system writes the source store in one behaviour
MaxWrites == 1

\* ------------------------------------------------------------- value sets
\* Python None / SQL NULL for an absent start_time or end_time
NULL == -1

\* UploadRecord of the wire contract, as the dict upload_usage_data builds:
\* start_time and end_time are optional texts, of which only equality
\* matters to the store.  One complete record, one without start_time and
\* one without end_time.
UploadRecord ==
    { [app_name |-> "A", duration_seconds |-> 10, start_time |-> 1, end_time |-> 2],
      [app_name |-> "A", duration_seconds |-> 10, start_time |-> NULL, end_time |-> 2],
      [app_name |-> "B", duration_seconds |-> 10, start_time |-> 1, end_time |-> NULL] }

RECURSIVE SeqsUpTo(_, _)
SeqsUpTo(S, n) ==
    IF n = 0 THEN {<<>>}
    ELSE LET shorter == SeqsUpTo(S, n - 1)
         IN  shorter \cup {Append(s, x) : s \in {t \in shorter : Len(t) = n - 1}, x \in S}

Batches == SeqsUpTo(UploadRecord, MaxBatch)

\* the concurrent request workers of the web transport
Callers == {"c1", "c2"}

VARIABLES
    \* ---- SyncStore
    store,          \* committed rows of table usage, in rowid order
    db_exists,      \* SERVER_DB_PATH.exists()
    lock,           \* holder of the database write lock, or "free"
    pc,             \* position of each caller inside upload_usage_data
    records,        \* the batch each caller is inserting
    idx,            \* index of the next record of the for loop
    inserted,       \* local variable inserted of insert_usage_records
    total_changes,  \* conn.total_changes of the caller's connection
    txn,            \* rows inserted in the caller's open transaction
    started,        \* number of uploads already answered when the call began
    log,            \* the answered uploads with their effect, in commit order
    \* ---- snapshot life cycle of one invocation after another
    caller,         \* "cli" (screentime.main), "sync" (sync_screentime.main),
                    \* "api" (screentime_api.get_usage_data) or "none"
    spc,            \* position of the invocation
    env,            \* what the invocation finds on the host
    temp_db,        \* local variable temp_db of the caller (NULL for None)
    exc,            \* the exception on its way to the except clauses
    error,          \* the error the copy or query of the source raised
    pending,        \* the exit, return or raise the finally clause lets through
    outcome,        \* how the invocation ended
    tempdirs,       \* the snapshot directories that exist on disk
    mkdtemps,       \* number of directories tempfile.mkdtemp has created
    runs,           \* number of invocations started
    files,          \* content of the source store file and of each snapshot
    fetched,        \* what the query of the invocation returned
    raised,         \* the last exception raised inside the try block
    \* ---- aggregation
    usage_data,     \* the record sequence given to aggregate_by_app
    perm_data,      \* the same records in another order
    agg,            \* aggregate_by_app(usage_data), once it has run
    perm_agg,       \* aggregate_by_app(perm_data), once it has run
    \* ---- daily breakdown
    daily_in,       \* the usage_data given to the daily breakdown
    top_apps,       \* its top_apps / top_n argument
    daily,          \* the days it built, once it has run
    \* ---- epoch conversion
    TZ,             \* the local time zone of the host
    t_in,           \* the datetime given to datetime_to_apple_time
    native,         \* the Apple timestamp it returned
    t_out,          \* the datetime apple_time_to_datetime returned
    \* ---- extraction
    zobject,        \* the rows of table ZOBJECT of the snapshot
    q_start,        \* start_date of the query (None when not given)
    q_end,          \* end_date of the query (None when not given)
    q_result,       \* what get_app_usage returned
    server_exists,  \* SERVER_DB_PATH.exists() at the time of the query
    usage_table,    \* the rows of table usage of the server store
    s_result,       \* what get_server_usage returned
    \* ---- API key check of the web transport
    API_KEY,        \* os.environ.get("API_KEY") at server start
    response,       \* the last request and how it was answered
    reached,        \* the (route, key) pairs whose handler has run
    served,         \* number of requests answered
    \* ---- summary export
    export_in,      \* the usage_data whose summary is exported
    csv_file,       \* the file export_csv of the CLI wrote
    csv_body,       \* the body GET /export of the API answered
    \* ---- a reader of the server store
    observed,       \* the rows the last get_server_usage call saw
    \* ---- usage summary
    summary_in,     \* the usage_data whose summary is asked for
    summary_top,    \* the top parameter (NULL for None)
    summary,        \* the response of GET /summary
    shown           \* what --summary of the CLI displayed

storeVars == <<store, db_exists, lock, pc, records, idx, inserted,
               total_changes, txn, started, log>>

snapVars == <<caller, spc, env, temp_db, exc, error, pending, outcome,
              tempdirs, mkdtemps, runs,
             files, fetched, raised>>

aggVars == <<usage_data, perm_data, agg, perm_agg>>

dailyVars == <<daily_in, top_apps, daily>>

\* the variables of the remaining parts
epochVars == <<TZ, t_in, native, t_out>>

queryVars == <<zobject, q_start, q_end, q_result, server_exists, usage_table, s_result>>

authVars == <<API_KEY, response, reached, served>>

exportVars == <<export_in, csv_file, csv_body>>

readVars == <<observed>>

summaryVars == <<summary_in, summary_top, summary, shown>>

moreVars == <<dailyVars, epochVars, queryVars, authVars, exportVars, readVars,
              summaryVars>>

\* the remaining parts, each without itself
besidesDaily == <<epochVars, queryVars, authVars, exportVars, readVars, summaryVars>>
besidesEpoch == <<dailyVars, queryVars, authVars, exportVars, readVars, summaryVars>>
besidesQuery == <<dailyVars, authVars, exportVars, readVars, summaryVars>>
besidesAuth == <<dailyVars, epochVars, queryVars, exportVars, readVars, summaryVars>>
besidesRead == <<dailyVars, epochVars, queryVars, authVars, exportVars, summaryVars>>
besidesSummary == <<dailyVars, epochVars, queryVars, authVars, exportVars, readVars>>
besidesExport == <<dailyVars, epochVars, queryVars, authVars, readVars, summaryVars>>

vars == <<storeVars, snapVars, aggVars, moreVars>>

\* ------------------------------------------------------------ SyncStore

\* UNIQUE(app_name, start_time, end_time): SQLite treats every NULL as
\* distinct from every other value, NULL included, so a row with a NULL in
\* one of the constrained columns never conflicts.
UniqueConflict(row, rec) ==
    /\ row.app_name = rec.app_name
    /\ row.start_time = rec.start_time
    /\ row.end_time = rec.end_time
    /\ rec.start_time # NULL
    /\ rec.end_time # NULL

\* the rows a statement of caller p sees: committed ones and its own
VisibleRows(p) == store \o txn[p]

\* INSERT OR IGNORE skips the row when it violates the constraint
Ignored(p, rec) ==
    \E i \in 1..Len(VisibleRows(p)) : UniqueConflict(VisibleRows(p)[i], rec)

\* (a counter that counts every executed statement, skipped rows included)
TotalChangesCountingSkipped(tc, ignored) == tc + 1

\* conn.total_changes counts the rows the connection has inserted
TotalChangesAfter(tc, ignored) == IF ignored THEN tc ELSE tc + 1

\* if conn.total_changes > inserted: inserted = conn.total_changes
InsertedAfter(ins, tc) == IF tc > ins THEN tc ELSE ins

UploadsStarted == Len(log) + Cardinality({p \in Callers : pc[p] # "idle"})

StoreInit ==
    /\ store = <<>>
    /\ db_exists = FALSE
    /\ lock = "free"
    /\ pc = [p \in Callers |-> "idle"]
    /\ records = [p \in Callers |-> <<>>]
    /\ idx = [p \in Callers |-> 1]
    /\ inserted = [p \in Callers |-> 0]
    /\ total_changes = [p \in Callers |-> 0]
    /\ txn = [p \in Callers |-> <<>>]
    /\ started = [p \in Callers |-> 0]
    /\ log = <<>>

\* POST /upload arrives: the handler builds records, insert_usage_records
\* runs init_server_db(), opens its connection and sets inserted = 0.
Upload(p, batch) ==
    /\ pc[p] = "idle"
    /\ UploadsStarted < MaxCalls
    /\ records' = [records EXCEPT ![p] = batch]
    /\ db_exists' = TRUE
    /\ idx' = [idx EXCEPT ![p] = 1]
    /\ inserted' = [inserted EXCEPT ![p] = 0]
    /\ total_changes' = [total_changes EXCEPT ![p] = 0]
    /\ txn' = [txn EXCEPT ![p] = <<>>]
    /\ started' = [started EXCEPT ![p] = Len(log)]
    /\ pc' = [pc EXCEPT ![p] = IF batch = <<>> THEN "commit" ELSE "insert"]
    /\ UNCHANGED <<store, lock, log, snapVars, aggVars, moreVars>>

\* one iteration of the for loop: the INSERT OR IGNORE statement takes the
\* write lock (waiting while another connection holds it) and the counter
\* is refreshed from conn.total_changes.  The except IntegrityError branch
\* is never entered: OR IGNORE turns the violation into a skipped row.
InsertRecord(p) ==
    /\ pc[p] = "insert"
    /\ lock \in {"free", p}
    /\ LET rec == records[p][idx[p]]
           ign == Ignored(p, rec)
           tc  == TotalChangesAfter(total_changes[p], ign)
       IN  /\ txn' = [txn EXCEPT ![p] = IF ign THEN @ ELSE Append(@, rec)]
           /\ total_changes' = [total_changes EXCEPT ![p] = tc]
           /\ inserted' = [inserted EXCEPT ![p] = InsertedAfter(@, tc)]
    /\ lock' = p
    /\ idx' = [idx EXCEPT ![p] = @ + 1]
    /\ pc' = [pc EXCEPT ![p] = IF idx[p] = Len(records[p]) THEN "commit" ELSE "insert"]
    /\ UNCHANGED <<store, db_exists, records, started, log, snapVars, aggVars, moreVars>>

\* conn.commit(); conn.close(); return inserted; the handler answers with
\* records_received = len(records) and records_inserted = inserted.
Commit(p) ==
    /\ pc[p] = "commit"
    /\ store' = store \o txn[p]
    /\ lock' = IF lock = p THEN "free" ELSE lock
    /\ log' = Append(log, [status |-> "ok",
                           records_received |-> Len(records[p]),
                           records_inserted |-> inserted[p],
                           caller |-> p,
                           records |-> records[p],
                           started |-> started[p],
                           before |-> store,
                           after |-> store \o txn[p]])
    \* the connection is closed and the locals go out of scope
    /\ txn' = [txn EXCEPT ![p] = <<>>]
    /\ records' = [records EXCEPT ![p] = <<>>]
    /\ idx' = [idx EXCEPT ![p] = 1]
    /\ inserted' = [inserted EXCEPT ![p] = 0]
    /\ total_changes' = [total_changes EXCEPT ![p] = 0]
    /\ started' = [started EXCEPT ![p] = 0]
    /\ pc' = [pc EXCEPT ![p] = "idle"]
    /\ UNCHANGED <<db_exists, snapVars, aggVars, moreVars>>

\* an INSERT raises an error that is not an IntegrityError (the database
\* stays locked past the timeout, the disk is full, a value cannot be
\* bound): the exception leaves insert_usage_records before conn.commit(),
\* with the connection still open
InsertFails(p) ==
    /\ pc[p] = "insert"
    /\ pc' = [pc EXCEPT ![p] = "failed"]
    /\ UNCHANGED <<store, db_exists, lock, records, idx, inserted, total_changes,
                   txn, started, log, snapVars, aggVars, moreVars>>

\* the connection of a failed call is closed without a commit: SQLite rolls
\* the open transaction back
RollbackOnClose(committed, uncommitted) == committed

\* the abandoned connection is finalized; the handler has answered with an
\* error
CloseFailed(p) ==
    /\ pc[p] = "failed"
    /\ store' = RollbackOnClose(store, txn[p])
    /\ lock' = IF lock = p THEN "free" ELSE lock
    /\ log' = Append(log, [status |-> "error",
                           records_received |-> Len(records[p]),
                           records_inserted |-> 0,
                           caller |-> p,
                           records |-> records[p],
                           started |-> started[p],
                           before |-> store,
                           after |-> RollbackOnClose(store, txn[p])])
    /\ txn' = [txn EXCEPT ![p] = <<>>]
    /\ records' = [records EXCEPT ![p] = <<>>]
    /\ idx' = [idx EXCEPT ![p] = 1]
    /\ inserted' = [inserted EXCEPT ![p] = 0]
    /\ total_changes' = [total_changes EXCEPT ![p] = 0]
    /\ started' = [started EXCEPT ![p] = 0]
    /\ pc' = [pc EXCEPT ![p] = "idle"]
    /\ UNCHANGED <<db_exists, snapVars, aggVars, moreVars>>

\* (a reader that sees the rows of open transactions)
ReadUncommitted(committed, open) == committed \o open

\* the rows a SELECT of another connection sees: the committed ones only
ReadCommitted(committed, open) == committed

NotRead == [done |-> FALSE, rows |-> <<>>, during |-> <<>>]

ReadIdle == observed = NotRead

\* get_server_usage on its own connection, at any moment of the uploads;
\* during is what the open transaction held at that moment
ReadServerUsage ==
    /\ db_exists
    /\ LET open == txn["c1"] \o txn["c2"]
       IN  observed' = [done |-> TRUE,
                        rows |-> ReadCommitted(store, open),
                        during |-> open]
    /\ UNCHANGED <<storeVars, snapVars, aggVars, besidesRead>>

\* ------------------------------------------------- snapshot life cycle

Kinds == {"cli", "sync", "api"}

NoPending == [kind |-> "none", status |-> 0, source |-> "none"]
Exit(n) == [kind |-> "exit", status |-> n, source |-> "none"]
Return(src) == [kind |-> "return", status |-> 200, source |-> src]
HttpError(n) == [kind |-> "http", status |-> n, source |-> "none"]
\* main() runs to its end: the process ends with status 0
EndOfMain == [kind |-> "end", status |-> 0, source |-> "local"]

NoEnv == [source_exists |-> FALSE, has_local_db |-> FALSE, server_db_exists |-> FALSE]

\* HAS_LOCAL_DB and SERVER_DB_PATH only matter to the API
Envs(kind) ==
    IF kind = "api"
    THEN [source_exists : BOOLEAN, has_local_db : BOOLEAN, server_db_exists : BOOLEAN]
    ELSE [source_exists : BOOLEAN, has_local_db : {TRUE}, server_db_exists : {FALSE}]

\* shutil.copy2 of the source or of a companion file fails
CopyErrors == {"PermissionError", "OSError"}
\* sqlite3 fails on the snapshot
QueryErrors == {"DatabaseError"}
\* the export cannot write its file / the upload transport fails
ProcessError(kind) == IF kind = "cli" THEN "OSError" ELSE "Exception"

\* the source store file, as a path of the file system
DEFAULT_DB_PATH == 0

\* the paths: the source store and the snapshot of each mkdtemp directory
Paths == 0..MaxRuns

\* (the source moved into the snapshot directory)
MoveFile(fs, src, dst) == [fs EXCEPT ![dst] = fs[src], ![src] = NULL]

\* shutil.copy2(src, dst)
copy2(fs, src, dst) == [fs EXCEPT ![dst] = fs[src]]

\* shutil.rmtree(dir, ignore_errors=True) of a snapshot directory
rmtree(fs, dir) == [fs EXCEPT ![dir] = NULL]

\* (an except clause that catches BaseException)
CatchesBaseException(kind, e) == TRUE

\* the except clauses catch PermissionError, DatabaseError and Exception;
\* SystemExit, raised by sys.exit, is not an Exception
Catches(kind, e) == e # "SystemExit"

SnapIdle ==
    /\ files = [path \in Paths |-> IF path = DEFAULT_DB_PATH THEN 0 ELSE NULL]
    /\ fetched = "none"
    /\ raised = "none"
    /\ caller = "none"
    /\ spc = "idle"
    /\ env = NoEnv
    /\ temp_db = NULL
    /\ exc = "none"
    /\ error = "none"
    /\ pending = NoPending
    /\ outcome = NoPending
    /\ tempdirs = {}
    /\ mkdtemps = 0
    /\ runs = 0

\* (an API without its except PermissionError clause)
ExceptClauseCatchAll(kind, e) == IF kind = "api" THEN NoPending ELSE Exit(1)

\* the except clauses of the three callers: the CLI and the sync client
\* print a diagnostic and sys.exit(1) for every kind; the API raises
\* HTTPException(403) for PermissionError and passes on any other Exception
ExceptClause(kind, e) ==
    IF kind = "api"
    THEN IF e = "PermissionError" THEN HttpError(403) ELSE NoPending
    ELSE Exit(1)

\* an invocation begins: the CLI and the sync client exit 1 when the source
\* file is absent; the API tries the source only if HAS_LOCAL_DB and
\* DEFAULT_DB_PATH.exists(), and goes to the server store otherwise
Start(kind, e) ==
    /\ spc \in {"idle", "done"}
    /\ runs < MaxRuns
    /\ runs' = runs + 1
    /\ caller' = kind
    /\ env' = e
    /\ temp_db' = NULL
    /\ exc' = "none"
    /\ error' = "none"
    /\ pending' = NoPending
    /\ fetched' = "none"
    /\ raised' = "none"
    /\ IF kind = "api"
       THEN /\ spc' = IF e.has_local_db /\ e.source_exists THEN "copy" ELSE "fallback"
            /\ outcome' = NoPending
       ELSE IF e.source_exists
            THEN spc' = "copy" /\ outcome' = NoPending
            ELSE spc' = "done" /\ outcome' = Exit(1)
    /\ UNCHANGED <<tempdirs, mkdtemps, files, storeVars, aggVars, moreVars>>

\* copy_database_to_temp succeeds: mkdtemp, copy2, temp_db is assigned
CopyOk ==
    /\ spc = "copy"
    /\ mkdtemps' = mkdtemps + 1
    /\ tempdirs' = tempdirs \cup {mkdtemps + 1}
    /\ temp_db' = mkdtemps + 1
    /\ files' = copy2(files, DEFAULT_DB_PATH, mkdtemps + 1)
    /\ spc' = "query"
    /\ UNCHANGED <<caller, env, exc, error, pending, outcome, runs, fetched, raised,
                   storeVars, aggVars, moreVars>>

\* copy_database_to_temp raises after mkdtemp: the directory exists, the
\* exception leaves the function and temp_db of the caller is still None
CopyFails(e) ==
    /\ spc = "copy"
    /\ mkdtemps' = mkdtemps + 1
    /\ tempdirs' = tempdirs \cup {mkdtemps + 1}
    /\ exc' = e
    /\ error' = e
    /\ raised' = e
    /\ spc' = "except"
    /\ UNCHANGED <<caller, env, temp_db, pending, outcome, runs, files, fetched,
                   storeVars, aggVars, moreVars>>

\* the read-only query of the snapshot returns: the API returns the list,
\* the CLI and the sync client sys.exit(0) on an empty list and go on
\* otherwise; sys.exit raises SystemExit inside the try block
QueryOk(empty) ==
    /\ spc = "query"
    /\ fetched' = IF empty THEN "empty" ELSE "data"
    /\ IF caller = "api"
       THEN pending' = Return("local") /\ spc' = "finally" /\ exc' = exc
       ELSE IF empty
            THEN IF Catches(caller, "SystemExit")
                 THEN pending' = NoPending /\ spc' = "except" /\ exc' = "SystemExit"
                 ELSE pending' = Exit(0) /\ spc' = "finally" /\ exc' = exc
            ELSE pending' = NoPending /\ spc' = "process" /\ exc' = exc
    /\ UNCHANGED <<caller, env, temp_db, error, outcome, tempdirs, mkdtemps,
                   runs, files, raised, storeVars, aggVars, moreVars>>

QueryFails(e) ==
    /\ spc = "query"
    /\ exc' = e
    /\ error' = e
    /\ raised' = e
    /\ spc' = "except"
    /\ UNCHANGED <<caller, env, temp_db, pending, outcome, tempdirs, mkdtemps,
                   runs, files, fetched, storeVars, aggVars, moreVars>>

\* the CLI exports or prints, the sync client uploads; the try block ends
ProcessOk ==
    /\ spc = "process"
    /\ pending' = EndOfMain
    /\ spc' = "finally"
    /\ UNCHANGED <<caller, env, temp_db, exc, error, outcome, tempdirs, mkdtemps,
                   runs, files, fetched, raised, storeVars, aggVars, moreVars>>

ProcessFails ==
    /\ spc = "process"
    /\ exc' = ProcessError(caller)
    /\ raised' = ProcessError(caller)
    /\ spc' = "except"
    /\ UNCHANGED <<caller, env, temp_db, error, pending, outcome, tempdirs,
                   mkdtemps, runs, files, fetched, storeVars, aggVars, moreVars>>

Except ==
    /\ spc = "except"
    /\ pending' = ExceptClause(caller, exc)
    /\ exc' = "none"
    /\ spc' = "finally"
    /\ UNCHANGED <<caller, env, temp_db, error, outcome, tempdirs, mkdtemps,
                   runs, files, fetched, raised, storeVars, aggVars, moreVars>>

\* finally: if temp_db and temp_db.exists(): shutil.rmtree(temp_db.parent)
\* (taken to remove the whole directory, as it does on a private directory);
\* then the pending exit, return or raise goes through, and an API call
\* whose exception was passed on reaches the server-store fallback
Finally ==
    /\ spc = "finally"
    /\ tempdirs' = IF temp_db # NULL /\ temp_db \in tempdirs
                   THEN tempdirs \ {temp_db} ELSE tempdirs
    /\ files' = IF temp_db # NULL /\ temp_db \in tempdirs
                THEN rmtree(files, temp_db) ELSE files
    /\ IF pending.kind = "none"
       THEN spc' = "fallback" /\ outcome' = outcome
       ELSE spc' = "done" /\ outcome' = pending
    /\ UNCHANGED <<caller, env, temp_db, exc, error, pending, mkdtemps, runs,
                   fetched, raised, storeVars, aggVars, moreVars>>

\* if SERVER_DB_PATH.exists(): return get_server_usage(...); else 503
Fallback ==
    /\ spc = "fallback"
    /\ outcome' = IF env.server_db_exists THEN Return("server") ELSE HttpError(503)
    /\ spc' = "done"
    /\ UNCHANGED <<caller, env, temp_db, exc, error, pending, tempdirs, mkdtemps,
                   runs, files, fetched, raised, storeVars, aggVars, moreVars>>

\* the system, which keeps the source store open, writes to it
SystemWrites ==
    /\ files[DEFAULT_DB_PATH] < MaxWrites
    /\ files' = [files EXCEPT ![DEFAULT_DB_PATH] = @ + 1]
    /\ UNCHANGED <<caller, spc, env, temp_db, exc, error, pending, outcome, tempdirs,
                   mkdtemps, runs, fetched, raised, storeVars, aggVars, moreVars>>

\* ---------------------------------------------------------- aggregation

AggApps == {"A", "B", "C"}
AggDurations == {0, 30, 50, 100}

\* the two keys of a usage record that aggregate_by_app reads
AggRecord == [app_name : AggApps, duration_seconds : AggDurations]

AggInputs == SeqsUpTo(AggRecord, MaxRecords)

NotRun == [done |-> FALSE, out |-> <<>>]

AggIdle ==
    /\ usage_data = <<>>
    /\ perm_data = <<>>
    /\ agg = NotRun
    /\ perm_agg = NotRun

\* (app_totals[app] = entry["duration_seconds"], the earlier sum lost)
AddEntryOverwriting(app_totals, entry) ==
    IF \E i \in 1..Len(app_totals) : app_totals[i].app_name = entry.app_name
    THEN [i \in 1..Len(app_totals) |->
            IF app_totals[i].app_name = entry.app_name
            THEN [app_totals[i] EXCEPT !.total_duration_seconds = entry.duration_seconds]
            ELSE app_totals[i]]
    ELSE Append(app_totals, [app_name |-> entry.app_name,
                             total_duration_seconds |-> 0 + entry.duration_seconds])

\* one iteration of the grouping loop.  app_totals is a dict, which keeps
\* its keys in insertion order: a sequence of (app, total) in first-seen order
AddEntry(app_totals, entry) ==
    IF \E i \in 1..Len(app_totals) : app_totals[i].app_name = entry.app_name
    THEN [i \in 1..Len(app_totals) |->
            IF app_totals[i].app_name = entry.app_name
            THEN [app_totals[i] EXCEPT !.total_duration_seconds = @ + entry.duration_seconds]
            ELSE app_totals[i]]
    ELSE Append(app_totals, [app_name |-> entry.app_name,
                             total_duration_seconds |-> 0 + entry.duration_seconds])

\* the grouping loop over usage_data, and the list built from the dict
RECURSIVE AppTotals(_)
AppTotals(data) ==
    IF data = <<>> THEN <<>>
    ELSE AddEntry(AppTotals(SubSeq(data, 1, Len(data) - 1)), data[Len(data)])

\* (an element placed before the elements of equal total: ties reversed)
InsertBeforeEqual(sorted, x) ==
    LET k == Cardinality({i \in 1..Len(sorted) :
                 sorted[i].total_duration_seconds > x.total_duration_seconds})
    IN  SubSeq(sorted, 1, k) \o <<x>> \o SubSeq(sorted, k + 1, Len(sorted))

\* list.sort is stable, also with reverse=True: an element goes after the
\* elements of greater or equal total that precede it
InsertDesc(sorted, x) ==
    LET k == Cardinality({i \in 1..Len(sorted) :
                 sorted[i].total_duration_seconds >= x.total_duration_seconds})
    IN  SubSeq(sorted, 1, k) \o <<x>> \o SubSeq(sorted, k + 1, Len(sorted))

RECURSIVE StableSortDesc(_)
StableSortDesc(result) ==
    IF result = <<>> THEN <<>>
    ELSE InsertDesc(StableSortDesc(SubSeq(result, 1, Len(result) - 1)),
                    result[Len(result)])

\* (the list returned as built, without the sort)
Unsorted(result) == result

\* result.sort(key=lambda x: x["total_duration_seconds"], reverse=True)
SortByTotalDesc(result) == StableSortDesc(result)

aggregate_by_app(data) == SortByTotalDesc(AppTotals(data))

Swap(data, i) ==
    [k \in 1..Len(data) |->
        IF k = i THEN data[i + 1] ELSE IF k = i + 1 THEN data[i] ELSE data[k]]

AggregateGiven ==
    /\ ~agg.done
    /\ agg' = [done |-> TRUE, out |-> aggregate_by_app(usage_data)]
    /\ UNCHANGED <<usage_data, perm_data, perm_agg, storeVars, snapVars, moreVars>>

\* the caller holds the same records in another order
Reorder(i) ==
    /\ i \in 1..(Len(perm_data) - 1)
    /\ perm_data[i] # perm_data[i + 1]
    /\ perm_data' = Swap(perm_data, i)
    /\ perm_agg' = NotRun
    /\ UNCHANGED <<usage_data, agg, storeVars, snapVars, moreVars>>

AggregateReordered ==
    /\ ~perm_agg.done
    /\ perm_agg' = [done |-> TRUE, out |-> aggregate_by_app(perm_data)]
    /\ UNCHANGED <<usage_data, perm_data, agg, storeVars, snapVars, moreVars>>

\* ------------------------------------------------------- daily breakdown

\* seconds of a calendar day: start_time.date() of a wall-clock second count
DaySeconds == 86400

DailyApps == {"A", "B", "C"}
DailyDurations == {30, 50}
\* no start_time, 10:00 of one day, 10:00 of the next day
DailyStarts == {NULL, 1704103200, 1704189600}

DailyRecord ==
    [app_name : DailyApps, duration_seconds : DailyDurations, start_time : DailyStarts]

DailyInputs == SeqsUpTo(DailyRecord, MaxRecords)

DailyIdle ==
    /\ daily_in = <<>>
    /\ top_apps = 1
    /\ daily = NotRun

\* entry["start_time"].date()
DateOf(start_time) == start_time \div DaySeconds

\* (every entry bucketed, the one without start_time too)
AlwaysTruthy(start_time) == TRUE

\* if entry["start_time"]: a datetime is truthy, None is not
Truthy(start_time) == start_time # NULL

\* one iteration of the grouping loop: daily_data is a dict of dicts, kept
\* here as the sequence of (date, apps) in first-seen order
AddDaily(daily_data, entry) ==
    IF ~Truthy(entry.start_time) THEN daily_data
    ELSE LET date_key == DateOf(entry.start_time)
             with_key ==
                 IF \E i \in 1..Len(daily_data) : daily_data[i].date = date_key
                 THEN daily_data
                 ELSE Append(daily_data, [date |-> date_key, apps |-> <<>>])
         IN  [i \in 1..Len(with_key) |->
                IF with_key[i].date = date_key
                THEN [with_key[i] EXCEPT !.apps = AddEntry(@, entry)]
                ELSE with_key[i]]

RECURSIVE DailyData(_)
DailyData(data) ==
    IF data = <<>> THEN <<>>
    ELSE AddDaily(DailyData(SubSeq(data, 1, Len(data) - 1)), data[Len(data)])

\* sorted(daily_data.keys(), reverse=True): the dates are distinct
InsertDateDesc(sorted, bucket) ==
    LET k == Cardinality({i \in 1..Len(sorted) : sorted[i].date >= bucket.date})
    IN  SubSeq(sorted, 1, k) \o <<bucket>> \o SubSeq(sorted, k + 1, Len(sorted))

RECURSIVE SortDatesDesc(_)
SortDatesDesc(daily_data) ==
    IF daily_data = <<>> THEN <<>>
    ELSE InsertDateDesc(SortDatesDesc(SubSeq(daily_data, 1, Len(daily_data) - 1)),
                        daily_data[Len(daily_data)])

\* seq[:n]
Take(seq, n) == SubSeq(seq, 1, IF n < Len(seq) THEN n ELSE Len(seq))

RECURSIVE SumValues(_)
SumValues(apps_dict) ==
    IF apps_dict = <<>> THEN 0
    ELSE apps_dict[1].total_duration_seconds + SumValues(Tail(apps_dict))

\* sorted(apps_dict.items(), key=lambda x: x[1], reverse=True)[:top_apps]
SortedApps(apps_dict, top) == Take(StableSortDesc(apps_dict), top)

\* (the day total taken over the truncated list)
DayTotalOfListed(apps_dict, top) == SumValues(SortedApps(apps_dict, top))

\* total_seconds = sum(apps_dict.values())
DayTotal(apps_dict, top) == SumValues(apps_dict)

\* get_daily_breakdown of the API, and the same grouping, ordering and
\* totals of print_daily_summary of the CLI
get_daily_breakdown(data, top) ==
    LET days == SortDatesDesc(DailyData(data))
    IN  [i \in 1..Len(days) |->
            [date |-> days[i].date,
             total_duration_seconds |-> DayTotal(days[i].apps, top),
             apps |-> SortedApps(days[i].apps, top)]]

DailyBreakdown ==
    /\ ~daily.done
    /\ daily' = [done |-> TRUE, out |-> get_daily_breakdown(daily_in, top_apps)]
    /\ UNCHANGED <<daily_in, top_apps, storeVars, snapVars, aggVars, besidesDaily>>

\* ------------------------------------------------------ epoch conversion

\* seconds between 2001-01-01 and 1970-01-01
APPLE_EPOCH_OFFSET == 978307200

\* a naive datetime is its wall-clock reading, counted in seconds from
\* 1970-01-01 00:00:00 of the same clock, and its fold attribute
Datetime(wall, fold) == [wall |-> wall, fold |-> fold]

None == Datetime(NULL, 0)

\* the hosts: one without clock changes, and one that in 2024 sets its
\* clock forward at 2024-03-10 07:00:00 UTC and back at 2024-11-03 06:00:00 UTC
Zones == {"UTC", "America/New_York"}

SpringForward == 1710054000
FallBack == 1730613600
StandardOffset == -18000
DaylightOffset == -14400

\* utcoffset of the host at the instant u (time.localtime)
UtcOffset(u) ==
    IF TZ = "UTC" THEN 0
    ELSE IF u < SpringForward \/ u >= FallBack THEN StandardOffset
    ELSE DaylightOffset

\* local(u) of datetime._mktime: the wall-clock reading at the instant u
Local(u) == u + UtcOffset(u)

\* max_fold_seconds of the datetime module
MaxFoldSeconds == 86400

\* datetime.fromtimestamp(u) of a naive local datetime, with fold detection
fromtimestamp(u) ==
    LET result == Local(u)
        probe1 == Local(u - MaxFoldSeconds)
        trans == result - probe1 - MaxFoldSeconds
    IN  Datetime(result,
                 IF trans < 0 /\ Local(u + trans) = result THEN 1 ELSE 0)

\* datetime.timestamp() of a naive datetime (datetime._mktime): solves
\* t = local(u) for u; a reading inside a gap has no solution and is
\* moved by the size of the gap
timestamp(dt) ==
    LET t == dt.wall
        a == Local(t) - t
        u1 == t - a
        t1 == Local(u1)
        probe == IF dt.fold = 1 THEN u1 + MaxFoldSeconds ELSE u1 - MaxFoldSeconds
        b == IF t1 = t THEN Local(probe) - probe ELSE t1 - u1
        u2 == t - b
        t2 == Local(u2)
    IN  IF t1 = t /\ a = b THEN u1
        ELSE IF t2 = t THEN u2
        ELSE IF t1 = t THEN u1
        ELSE IF dt.fold = 1
             THEN (IF u1 < u2 THEN u1 ELSE u2)
             ELSE (IF u1 > u2 THEN u1 ELSE u2)

apple_time_to_datetime(apple_timestamp) ==
    IF apple_timestamp = NULL THEN None
    ELSE fromtimestamp(apple_timestamp + APPLE_EPOCH_OFFSET)

datetime_to_apple_time(dt) == timestamp(dt) - APPLE_EPOCH_OFFSET

\* the datetimes converted: None, and the readings every half hour from one
\* hour before 02:00 of 2024-03-10 and before 01:00 of 2024-11-03
EpochInputs ==
    {None} \cup
    {Datetime(start + 1800 * k, fold) :
        start \in {1710036000, 1730595600}, k \in (-2)..MaxHalfHours, fold \in {0, 1}}

EpochIdle ==
    /\ TZ = "UTC"
    /\ t_in = None
    /\ native = NotRun
    /\ t_out = NotRun

\* native = datetime_to_apple_time(t_in)
ToNative ==
    /\ t_in # None
    /\ ~native.done
    /\ native' = [done |-> TRUE, out |-> datetime_to_apple_time(t_in)]
    /\ UNCHANGED <<TZ, t_in, t_out, storeVars, snapVars, aggVars, besidesEpoch>>

\* t_out = apple_time_to_datetime(native)
ToCanonical ==
    /\ native.done
    /\ ~t_out.done
    /\ t_out' = [done |-> TRUE, out |-> apple_time_to_datetime(native.out)]
    /\ UNCHANGED <<TZ, t_in, native, storeVars, snapVars, aggVars, besidesEpoch>>

\* t_out = apple_time_to_datetime(None)
ToCanonicalOfNone ==
    /\ t_in = None
    /\ ~t_out.done
    /\ t_out' = [done |-> TRUE, out |-> apple_time_to_datetime(NULL)]
    /\ UNCHANGED <<TZ, t_in, native, storeVars, snapVars, aggVars, besidesEpoch>>

\* ------------------------------------------------------------ extraction

\* SQL NULL in the text column ZVALUESTRING
NullString == "<NULL>"

\* rows of ZOBJECT (ZSTREAMNAME, ZVALUESTRING, ZSTARTDATE, ZENDDATE), the
\* dates in Apple seconds: 01:00, 03:00 and 04:00 New York time of
\* 2024-03-10, and 01:30 (daylight time) and 01:10 (standard time, forty
\* minutes later) of 2024-11-03
ZRow(stream, value, start, end) ==
    [ZSTREAMNAME |-> stream, ZVALUESTRING |-> value,
     ZSTARTDATE |-> start, ZENDDATE |-> end]

SourceRows ==
    { ZRow("/app/usage", "A", 731743200, 731746800),
      ZRow("/app/usage", "B", 731746800, 731750400),
      ZRow("/app/usage", "A", 731746800, 731743200),
      ZRow("/app/usage", NullString, 731743200, 731746800),
      ZRow("/app/inFocus", "A", 731743200, 731746800),
      ZRow("/app/usage", "A", NULL, 731746800),
      ZRow("/app/usage", "B", 731746800, NULL),
      ZRow("/app/usage", "B", 731743200, 731743200),
      ZRow("/app/usage", "A", 752304600, 752305200),
      ZRow("/app/usage", "B", 752307000, 752307600) }

\* the tables: every set of at most MaxRows distinct rows
Tables == {t \in SUBSET SourceRows : Cardinality(t) <= MaxRows}

\* start_date: none, 01:00, 02:30 (a reading the New York clock skips),
\* 03:00 and 07:00 of 2024-03-10, 01:20 of 2024-11-03
StartDates ==
    {None} \cup {Datetime(w, 0) :
                    w \in {1710032400, 1710037800, 1710039600, 1710054000, 1730596800}}

\* end_date: none, 03:00 of 2024-03-10, 01:50 of 2024-11-03
EndDates == {None} \cup {Datetime(w, 0) : w \in {1710039600, 1730598600}}

\* column >= ? : never true of a NULL column
SqlGE(column, param) == column # NULL /\ column >= param

\* column <= ?
SqlLE(column, param) == column # NULL /\ column <= param

\* the sequences that hold every element of S once
Orderings(S) ==
    {c \in [1..Cardinality(S) -> S] :
        \A i, j \in 1..Cardinality(S) : i # j => c[i] # c[j]}

\* the orders in which a cursor may deliver the rows of S under
\* ORDER BY ZSTARTDATE DESC: NULL dates last, rows of equal date in any order
Cursors(S) ==
    {c \in Orderings(S) :
        \A i, j \in 1..Cardinality(S) :
            i < j => \/ c[j].ZSTARTDATE = NULL
                     \/ c[i].ZSTARTDATE # NULL /\ c[i].ZSTARTDATE >= c[j].ZSTARTDATE}

\* ZENDDATE - ZSTARTDATE as duration_seconds, then row[...] or 0
DurationOrZero(start, end) ==
    IF start = NULL \/ end = NULL THEN 0 ELSE end - start

\* (rows of every stream selected)
WhereAnyStream(row, start_date, end_date) ==
    /\ row.ZVALUESTRING # NullString
    /\ start_date # None => SqlGE(row.ZSTARTDATE, datetime_to_apple_time(start_date))
    /\ end_date # None => SqlLE(row.ZENDDATE, datetime_to_apple_time(end_date))

\* the WHERE clause get_app_usage builds
Where(row, start_date, end_date) ==
    /\ row.ZSTREAMNAME = "/app/usage"
    /\ row.ZVALUESTRING # NullString
    /\ start_date # None => SqlGE(row.ZSTARTDATE, datetime_to_apple_time(start_date))
    /\ end_date # None => SqlLE(row.ZENDDATE, datetime_to_apple_time(end_date))

\* the dict get_app_usage appends for a row
UsageRecord(row) ==
    [app_name |-> row.ZVALUESTRING,
     duration_seconds |-> DurationOrZero(row.ZSTARTDATE, row.ZENDDATE),
     start_time |-> apple_time_to_datetime(row.ZSTARTDATE),
     end_time |-> apple_time_to_datetime(row.ZENDDATE)]

NoResult == [done |-> FALSE, rows |-> <<>>, out |-> <<>>]

\* get_app_usage(db_path, start_date, end_date) for one cursor order
get_app_usage(cursor) == [i \in 1..Len(cursor) |-> UsageRecord(cursor[i])]

GetAppUsage ==
    /\ ~q_result.done
    /\ \E cursor \in Cursors({row \in zobject : Where(row, q_start, q_end)}) :
         q_result' = [done |-> TRUE, rows |-> cursor, out |-> get_app_usage(cursor)]
    /\ UNCHANGED <<zobject, q_start, q_end, server_exists, usage_table, s_result,
                   storeVars, snapVars, aggVars, epochVars, besidesQuery>>

\* ---- the server store

\* days_to_civil: year, month and day of the day number z from 1970-01-01
Civil(z) ==
    LET shifted == z + 719468
        era == shifted \div 146097
        doe == shifted - era * 146097
        yoe == (doe - doe \div 1460 + doe \div 36524 - doe \div 146096) \div 365
        doy == doe - (365 * yoe + yoe \div 4 - yoe \div 100)
        mp == (5 * doy + 2) \div 153
        m == IF mp < 10 THEN mp + 3 ELSE mp - 9
    IN  [year |-> yoe + era * 400 + (IF m <= 2 THEN 1 ELSE 0),
         month |-> m,
         day |-> doy - (153 * mp + 2) \div 5 + 1]

\* the day number of a calendar date
DaysFromCivil(y, m, d) ==
    LET yy == IF m <= 2 THEN y - 1 ELSE y
        era == yy \div 400
        yoe == yy - era * 400
        doy == (153 * (IF m > 2 THEN m - 3 ELSE m + 9) + 2) \div 5 + d - 1
        doe == yoe * 365 + yoe \div 4 - yoe \div 100 + doy
    IN  era * 146097 + doe - 719468

RECURSIVE Pow10(_)
Pow10(n) == IF n = 0 THEN 1 ELSE 10 * Pow10(n - 1)

\* n printed with width digits, as character codes
Digits(n, width) == [i \in 1..width |-> 48 + ((n \div Pow10(width - i)) % 10)]

\* the number printed at positions from..to of a text
RECURSIVE Number(_, _, _)
Number(text, from, to) ==
    IF to < from THEN 0
    ELSE 10 * Number(text, from, to - 1) + (text[to] - 48)

\* SQL NULL in a text column
NullText == <<>>

\* datetime.isoformat(): YYYY-MM-DDTHH:MM:SS, as character codes
isoformat(dt) ==
    LET date == Civil(dt.wall \div 86400)
        secs == dt.wall % 86400
    IN  Digits(date.year, 4) \o <<45>> \o Digits(date.month, 2) \o <<45>>
          \o Digits(date.day, 2) \o <<84>> \o Digits(secs \div 3600, 2) \o <<58>>
          \o Digits((secs % 3600) \div 60, 2) \o <<58>> \o Digits(secs % 60, 2)

\* datetime.fromisoformat(text)
fromisoformat(text) ==
    Datetime(DaysFromCivil(Number(text, 1, 4), Number(text, 6, 7), Number(text, 9, 10))
                * 86400
               + Number(text, 12, 13) * 3600 + Number(text, 15, 16) * 60
               + Number(text, 18, 19),
             0)

\* a < b for two texts, as SQLite's BINARY collation compares them
TextLess(a, b) ==
    \E k \in 1..Len(b) :
        /\ \A i \in 1..(k - 1) : i <= Len(a) /\ a[i] = b[i]
        /\ \/ k > Len(a)
           \/ a[k] < b[k]

\* start_time.isoformat() if start_time else None
TextOf(dt) == IF dt = None THEN NullText ELSE isoformat(dt)

\* the record the sync client uploads and the server stores
StoredRow(record) ==
    [app_name |-> record.app_name,
     duration_seconds |-> record.duration_seconds,
     start_time |-> TextOf(record.start_time),
     end_time |-> TextOf(record.end_time)]

\* the server table that holds the records of every app-usage row of a table
StoredRows(table) ==
    {StoredRow(UsageRecord(row)) : row \in {r \in table : Where(r, None, None)}}

\* the WHERE clause get_server_usage builds
ServerWhere(row, start_date, end_date) ==
    /\ start_date # None =>
         row.start_time # NullText /\ ~TextLess(row.start_time, isoformat(start_date))
    /\ end_date # None =>
         row.end_time # NullText /\ ~TextLess(isoformat(end_date), row.end_time)

\* the orders in which a cursor may deliver the rows of S under
\* ORDER BY start_time DESC, the texts compared as texts
ServerCursors(S) ==
    {c \in Orderings(S) :
        \A i, j \in 1..Cardinality(S) :
            i < j => \/ c[j].start_time = NullText
                     \/ c[i].start_time # NullText
                          /\ ~TextLess(c[i].start_time, c[j].start_time)}

\* the dict get_server_usage appends for a row
ServerRecord(row) ==
    [app_name |-> row.app_name,
     duration_seconds |-> row.duration_seconds,
     start_time |-> IF row.start_time # NullText
                    THEN fromisoformat(row.start_time) ELSE None,
     end_time |-> IF row.end_time # NullText
                  THEN fromisoformat(row.end_time) ELSE None]

\* get_server_usage(start_date, end_date) for one cursor order
get_server_usage(cursor) == [i \in 1..Len(cursor) |-> ServerRecord(cursor[i])]

GetServerUsage ==
    /\ ~s_result.done
    /\ IF ~server_exists
       THEN s_result' = [done |-> TRUE, rows |-> <<>>, out |-> <<>>]
       ELSE \E cursor \in ServerCursors({row \in usage_table :
                                            ServerWhere(row, q_start, q_end)}) :
              s_result' = [done |-> TRUE, rows |-> cursor,
                           out |-> get_server_usage(cursor)]
    /\ UNCHANGED <<zobject, q_start, q_end, q_result, server_exists, usage_table,
                   storeVars, snapVars, aggVars, epochVars, besidesQuery>>

QueryIdle ==
    /\ zobject = {}
    /\ q_start = None
    /\ q_end = None
    /\ q_result = NoResult
    /\ server_exists = FALSE
    /\ usage_table = {}
    /\ s_result = NoResult

\* --------------------------------------------------------- API key check

\* Python None where a text is expected (unset variable, absent header)
NoneStr == "<None>"

\* the values of the environment variable API_KEY and of the header X-API-Key
ServerKeys == {NoneStr, "", "secret"}
HeaderKeys == {NoneStr, "", "secret", "wrong"}

Routes == {"/health", "/upload", "/usage", "/summary", "/daily", "/export"}

\* not x, for a text or None
Falsy(x) == x = NoneStr \/ x = ""

\* (verify_api_key without the check of the server's own key)
VerifyAgainstAnyConfig(api_key) ==
    IF Falsy(api_key) THEN 401
    ELSE IF api_key # API_KEY THEN 403
    ELSE 0

\* verify_api_key: the status of the HTTPException it raises, 0 when it
\* returns the key
verify_api_key(api_key) ==
    IF Falsy(API_KEY) THEN 500
    ELSE IF Falsy(api_key) THEN 401
    ELSE IF api_key # API_KEY THEN 403
    ELSE 0

\* the Depends(...) parameters of each route's handler
Dependencies(route) == IF route = "/health" THEN {} ELSE {"verify_api_key"}

\* what a handler that runs can answer: get_usage_data aborts the reading
\* routes with 403 or 503
HandlerAnswers(route) ==
    IF route \in {"/health", "/upload"} THEN {200} ELSE {200, 403, 503}

NoResponse == [route |-> "none", api_key |-> NoneStr, status |-> 0, handled |-> FALSE]

AuthIdle ==
    /\ API_KEY = NoneStr
    /\ response = NoResponse
    /\ reached = {}
    /\ served = 0

\* one request: the dependencies are solved first, the handler runs only
\* when none of them raises
Request(route, api_key) ==
    /\ served < MaxRequests
    /\ served' = served + 1
    /\ LET denied == IF "verify_api_key" \in Dependencies(route)
                     THEN verify_api_key(api_key) ELSE 0
       IN  IF denied # 0
           THEN /\ response' = [route |-> route, api_key |-> api_key,
                                status |-> denied, handled |-> FALSE]
                /\ reached' = reached
           ELSE /\ \E answer \in HandlerAnswers(route) :
                     response' = [route |-> route, api_key |-> api_key,
                                  status |-> answer, handled |-> TRUE]
                /\ reached' = reached \cup {<<route, api_key>>}
    /\ UNCHANGED <<API_KEY, storeVars, snapVars, aggVars, besidesAuth>>

\* -------------------------------------------------------- summary export

\* sep.join(parts)
RECURSIVE Join(_, _)
Join(parts, sep) ==
    IF parts = <<>> THEN ""
    ELSE IF Len(parts) = 1 THEN parts[1]
    ELSE parts[1] \o sep \o Join(Tail(parts), sep)

\* ("".join(parts))
JoinWithoutSpace(parts) == Join(parts, "")

\* " ".join(parts)
SpaceJoin(parts) == Join(parts, " ")

\* format_duration(seconds), of a whole number of seconds or None
format_duration(seconds) ==
    IF seconds = NULL \/ seconds < 0 THEN "0s"
    ELSE LET hours == seconds \div 3600
             minutes == (seconds % 3600) \div 60
             secs == seconds % 60
             h == IF hours > 0 THEN <<ToString(hours) \o "h">> ELSE <<>>
             m == IF minutes > 0 THEN <<ToString(minutes) \o "m">> ELSE <<>>
             sec == IF secs > 0 \/ h \o m = <<>> THEN <<ToString(secs) \o "s">> ELSE <<>>
         IN  SpaceJoin(h \o m \o sec)

\* writer.writeheader() / writer.writerow(...): the fields separated by
\* commas (none of the fields written here needs quoting)
CsvLine(fields) == Join(fields, ",")

SummaryHeader ==
    CsvLine(<<"app_name", "total_duration_seconds", "total_duration_formatted">>)

SummaryRow(row) ==
    CsvLine(<<row.app_name,
              ToString(row.total_duration_seconds),
              format_duration(row.total_duration_seconds)>>)

\* the lines written in summary mode
SummaryCsv(data) == <<SummaryHeader>> \o [i \in 1..Len(data) |-> SummaryRow(data[i])]

NoFile == [done |-> FALSE, written |-> FALSE, lines |-> <<>>]

ExportIdle ==
    /\ export_in = <<>>
    /\ csv_file = NoFile
    /\ csv_body = NoFile

\* export_csv(aggregate_by_app(usage_data), output_path, summary_mode=True)
\* of the CLI: nothing is written when there is no data
ExportCsv ==
    /\ ~csv_file.done
    /\ LET data == aggregate_by_app(export_in)
       IN  csv_file' = IF data = <<>>
                       THEN [done |-> TRUE, written |-> FALSE, lines |-> <<>>]
                       ELSE [done |-> TRUE, written |-> TRUE, lines |-> SummaryCsv(data)]
    /\ UNCHANGED <<export_in, csv_body, storeVars, snapVars, aggVars, besidesExport>>

\* export_data(format=csv, summary=True) of the API
ExportData ==
    /\ ~csv_body.done
    /\ csv_body' = [done |-> TRUE, written |-> TRUE,
                    lines |-> SummaryCsv(aggregate_by_app(export_in))]
    /\ UNCHANGED <<export_in, csv_file, storeVars, snapVars, aggVars, besidesExport>>

\* ------------------------------------------------------ usage summary

\* top: Optional[int] = Query(None, ge=1, le=1000)
Tops == {NULL} \cup 1..MaxTop

NoSummary ==
    [done |-> FALSE, total_duration_seconds |-> 0, total_duration_formatted |-> "",
     app_count |-> 0, apps |-> <<>>]

NotShown == [done |-> FALSE, total_time |-> 0, entries |-> <<>>]

SummaryIdle ==
    /\ summary_in = <<>>
    /\ summary_top = NULL
    /\ summary = NoSummary
    /\ shown = NotShown

\* if top: aggregated = aggregated[:top] (None and 0 are falsy)
Truncated(aggregated, n) ==
    IF n # NULL /\ n # 0 THEN Take(aggregated, n) ELSE aggregated

\* (the total taken over all the apps, before the truncation)
TotalOfAllApps(aggregated, listed) == SumValues(aggregated)

\* total_seconds = sum(a["total_duration_seconds"] for a in aggregated),
\* where aggregated is by then the truncated list
TotalSeconds(aggregated, listed) == SumValues(listed)

AppSummary(a) ==
    [app_name |-> a.app_name,
     total_duration_seconds |-> a.total_duration_seconds,
     total_duration_formatted |-> format_duration(a.total_duration_seconds)]

\* get_summary, given the usage_data that get_usage_data returned
get_summary(data, n) ==
    LET aggregated == aggregate_by_app(data)
        listed == Truncated(aggregated, n)
        total_seconds == TotalSeconds(aggregated, listed)
        apps == [i \in 1..Len(listed) |-> AppSummary(listed[i])]
    IN  [done |-> TRUE,
         total_duration_seconds |-> total_seconds,
         total_duration_formatted |-> format_duration(total_seconds),
         app_count |-> Len(apps),
         apps |-> apps]

GetSummary ==
    /\ ~summary.done
    /\ summary' = get_summary(summary_in, summary_top)
    /\ UNCHANGED <<summary_in, summary_top, shown, storeVars, snapVars, aggVars,
                   besidesSummary>>

\* the terminal display of --summary: the total is taken over all the apps,
\* then the first args.top entries are listed (args.top is an int, 10 by
\* default; the display is reached only when there is data)
ShowSummary ==
    /\ ~shown.done
    /\ summary_in # <<>>
    /\ summary_top # NULL
    /\ LET data == aggregate_by_app(summary_in)
       IN  shown' = [done |-> TRUE,
                     total_time |-> SumValues(data),
                     entries |-> Take(data, summary_top)]
    /\ UNCHANGED <<summary_in, summary_top, summary, storeVars, snapVars, aggVars,
                   besidesSummary>>

\* ------------------------------------------------------ specifications

\* ---- one client uploading batch after batch
\* the remaining parts before they run
MoreIdle ==
    /\ DailyIdle /\ EpochIdle /\ QueryIdle /\ AuthIdle /\ ExportIdle /\ ReadIdle
    /\ SummaryIdle

Init == StoreInit /\ SnapIdle /\ AggIdle /\ MoreIdle

Next ==
    \/ \E batch \in Batches : Upload("c1", batch)
    \/ InsertRecord("c1")
    \/ Commit("c1")

Spec == Init /\ [][Next]_vars

\* ---- two request workers, each serving one upload, in any interleaving
HasUploaded(p) == \E i \in 1..Len(log) : log[i].caller = p

UploadOnce(p, batch) == ~HasUploaded(p) /\ Upload(p, batch)

ConcNext ==
    \/ \E p \in Callers, batch \in Batches : UploadOnce(p, batch)
    \/ \E p \in Callers : InsertRecord(p)
    \/ \E p \in Callers : Commit(p)

SpecConc == Init /\ [][ConcNext]_vars

\* ---- one CLI, sync or API invocation after another
SnapNext ==
    \/ \E kind \in Kinds : \E e \in Envs(kind) : Start(kind, e)
    \/ CopyOk
    \/ \E e \in CopyErrors : CopyFails(e)
    \/ \E empty \in BOOLEAN : QueryOk(empty)
    \/ \E e \in QueryErrors : QueryFails(e)
    \/ ProcessOk
    \/ ProcessFails
    \/ Except
    \/ Finally
    \/ Fallback
    \/ SystemWrites

SpecSnap == Init /\ [][SnapNext]_vars

\* ---- aggregate_by_app on every bounded record sequence and its reorderings
AggInit ==
    /\ StoreInit
    /\ SnapIdle
    /\ usage_data \in AggInputs
    /\ perm_data = usage_data
    /\ agg = NotRun
    /\ perm_agg = NotRun
    /\ MoreIdle

AggNext ==
    \/ AggregateGiven
    \/ \E i \in 1..MaxRecords : Reorder(i)
    \/ AggregateReordered

SpecAgg == AggInit /\ [][AggNext]_vars

\* ---- the daily breakdown of every bounded record sequence
DailyInit ==
    /\ StoreInit
    /\ SnapIdle
    /\ AggIdle
    /\ daily_in \in DailyInputs
    /\ top_apps \in 1..MaxTop
    /\ daily = NotRun
    /\ EpochIdle
    /\ QueryIdle
    /\ AuthIdle
    /\ ExportIdle
    /\ ReadIdle
    /\ SummaryIdle

DailyNext == DailyBreakdown

SpecDaily == DailyInit /\ [][DailyNext]_vars

\* ---- the conversion of every datetime, to Apple time and back
EpochInit ==
    /\ StoreInit
    /\ SnapIdle
    /\ AggIdle
    /\ DailyIdle
    /\ QueryIdle
    /\ AuthIdle
    /\ ExportIdle
    /\ ReadIdle
    /\ SummaryIdle
    /\ TZ \in Zones
    /\ t_in \in EpochInputs
    /\ native = NotRun
    /\ t_out = NotRun

EpochNext ==
    \/ ToNative
    \/ ToCanonical
    \/ ToCanonicalOfNone

SpecEpoch == EpochInit /\ [][EpochNext]_vars

\* ---- one query of the snapshot and of the server store that holds the
\* same records
QueryInit ==
    /\ StoreInit
    /\ SnapIdle
    /\ AggIdle
    /\ DailyIdle
    /\ TZ \in Zones
    /\ t_in = None
    /\ native = NotRun
    /\ t_out = NotRun
    /\ zobject \in Tables
    /\ q_start \in StartDates
    /\ q_end \in EndDates
    /\ q_result = NoResult
    /\ server_exists \in BOOLEAN
    /\ usage_table = IF server_exists THEN StoredRows(zobject) ELSE {}
    /\ s_result = NoResult
    /\ AuthIdle
    /\ ExportIdle
    /\ ReadIdle
    /\ SummaryIdle

QueryNext ==
    \/ GetAppUsage
    \/ GetServerUsage

SpecQuery == QueryInit /\ [][QueryNext]_vars

\* ---- the requests of any client to a server with any key configuration
AuthInit ==
    /\ StoreInit
    /\ SnapIdle
    /\ AggIdle
    /\ DailyIdle
    /\ EpochIdle
    /\ QueryIdle
    /\ ExportIdle
    /\ ReadIdle
    /\ SummaryIdle
    /\ API_KEY \in ServerKeys
    /\ response = NoResponse
    /\ reached = {}
    /\ served = 0

AuthNext == \E route \in Routes, api_key \in HeaderKeys : Request(route, api_key)

SpecAuth == AuthInit /\ [][AuthNext]_vars

\* ---- the summary export of every bounded record sequence
ExportInit ==
    /\ StoreInit
    /\ SnapIdle
    /\ AggIdle
    /\ DailyIdle
    /\ EpochIdle
    /\ QueryIdle
    /\ AuthIdle
    /\ export_in \in AggInputs
    /\ csv_file = NoFile
    /\ csv_body = NoFile
    /\ ReadIdle
    /\ SummaryIdle

ExportNext ==
    \/ ExportCsv
    \/ ExportData

SpecExport == ExportInit /\ [][ExportNext]_vars

\* ---- one upload of each caller, which may fail part-way, with a reader
\* at every moment
AtomicNext ==
    \/ \E p \in Callers : \E batch \in Batches : UploadOnce(p, batch)
    \/ \E p \in Callers : InsertRecord(p)
    \/ \E p \in Callers : InsertFails(p)
    \/ \E p \in Callers : Commit(p)
    \/ \E p \in Callers : CloseFailed(p)
    \/ ReadServerUsage

SpecAtomic == Init /\ [][AtomicNext]_vars

\* ---- the summary of every bounded record sequence, for every top
SummaryInit ==
    /\ StoreInit
    /\ SnapIdle
    /\ AggIdle
    /\ DailyIdle
    /\ EpochIdle
    /\ QueryIdle
    /\ AuthIdle
    /\ ExportIdle
    /\ ReadIdle
    /\ summary_in \in AggInputs
    /\ summary_top \in Tops
    /\ summary = NoSummary
    /\ shown = NotShown

SummaryNext ==
    \/ GetSummary
    \/ ShowSummary

SpecSummary == SummaryInit /\ [][SummaryNext]_vars

\* =================================================================== claims

Triple(r) == <<r.app_name, r.start_time, r.end_time>>

RowsWithTriple(rows, r) == {i \in 1..Len(rows) : Triple(rows[i]) = Triple(r)}

DistinctTriples(rows) ==
    \A i, j \in 1..Len(rows) : i # j => Triple(rows[i]) # Triple(rows[j])

\* C1: after any sequence of insert_usage_records calls, also with records
\* whose start_time or end_time is absent, the store never holds two rows
\* with the same (app_name, start_time, end_time) triple.
C1_NoDuplicateTriple == DistinctTriples(store)

\* C2: the same set of N records inserted twice into an initially empty
\* store gives N on the first call and 0 on the second, the second call
\* leaves the stored rows unchanged, and POST /upload reports
\* records_received = N both times.
C2_SecondUploadInsertsNothing ==
    (/\ Len(log) >= 2
     /\ log[1].before = <<>>
     /\ log[2].started = 1
     /\ log[2].records = log[1].records
     /\ DistinctTriples(log[1].records))
    => (/\ log[1].records_inserted = Len(log[1].records)
        /\ log[1].records_received = Len(log[1].records)
        /\ log[2].records_inserted = 0
        /\ log[2].records_received = Len(log[1].records)
        /\ log[2].after = log[2].before)

\* C3: insert_usage_records returns exactly the number of rows the call
\* added (row count after minus row count before), not the number of
\* records submitted, while POST /upload reports records_received as the
\* number of records submitted.
C3_InsertedCountsNewRows ==
    \A i \in 1..Len(log) :
        /\ log[i].records_inserted = Len(log[i].after) - Len(log[i].before)
        /\ log[i].records_received = Len(log[i].records)

\* a batch that partly overlaps the rows already stored has been answered
C3_PartialOverlapAnswered ==
    \E i \in 1..Len(log) :
        /\ log[i].before # <<>>
        /\ log[i].records_inserted > 0
        /\ log[i].records_inserted < log[i].records_received

\* C4: two callers insert the same logical record concurrently: neither
\* call fails, exactly one row for that triple ends up stored, and the
\* two returned counts sum to the number of rows added.
C4_ConcurrentSameRecord ==
    (/\ Len(log) = 2
     /\ log[1].started = 0
     /\ log[2].started = 0
     /\ Len(log[1].records) = 1
     /\ log[2].records = log[1].records)
    => (/\ log[1].status = "ok"
        /\ log[2].status = "ok"
        /\ Cardinality(RowsWithTriple(store, log[1].records[1])) = 1
        /\ log[1].records_inserted + log[2].records_inserted = Len(store))

Failed(o) == (o.kind = "exit" /\ o.status # 0) \/ (o.kind = "http" /\ o.status >= 400)

\* C5: every snapshot directory copy_database_to_temp created is deleted by
\* the time its caller finishes, on every exit path (normal return, no-data
\* exit, exception in the copy step or in the query step).
C5_TempDirsDeleted == spc = "done" => tempdirs = {}

\* C6: an error raised while copying or querying the primary source store is
\* never silently absorbed: the caller always observes it as a failure.
C6_SourceErrorObserved == (spc = "done" /\ error # "none") => Failed(outcome)

\* C7 as stated: in the API get_usage_data a permission error on the local
\* source store is caught and the request is answered from the server-side
\* SyncStore instead of being aborted.
C7_PermissionFallsBack ==
    (spc = "done" /\ caller = "api" /\ error = "PermissionError")
    => (outcome.kind = "return" /\ outcome.source = "server")

\* C7 as amended: in the API get_usage_data a permission error on the local
\* source store is caught and the request is aborted with HTTP 403; it is
\* not answered from the server-side SyncStore, even when that store exists.
C7_PermissionIsForbidden ==
    (spc = "done" /\ caller = "api" /\ error = "PermissionError")
    => outcome = HttpError(403)

\* an API request hit a permission error while the server store existed
C7_PermissionErrorWithServerStore ==
    /\ spc = "done"
    /\ caller = "api"
    /\ error = "PermissionError"
    /\ env.server_db_exists

RECURSIVE SumOf(_, _)
SumOf(seq, field) ==
    IF seq = <<>> THEN 0
    ELSE seq[1][field] + SumOf(Tail(seq), field)

AppsOf(seq) == {seq[i].app_name : i \in 1..Len(seq)}

FirstSeen(data, app) ==
    CHOOSE i \in 1..Len(data) :
        /\ data[i].app_name = app
        /\ \A k \in 1..(i - 1) : data[k].app_name # app

\* C8: for records with non-negative durations the totals returned by
\* aggregate_by_app sum to the sum of the input durations, with exactly one
\* output entry per distinct app_name.
C8_TotalsSumToInput ==
    agg.done =>
        /\ SumOf(agg.out, "total_duration_seconds") = SumOf(usage_data, "duration_seconds")
        /\ Len(agg.out) = Cardinality(AppsOf(usage_data))
        /\ AppsOf(agg.out) = AppsOf(usage_data)

\* several records of one app were merged next to another app
C8_RecordsMerged ==
    /\ agg.done
    /\ Len(agg.out) >= 2
    /\ Len(agg.out) < Len(usage_data)

\* C9: aggregate_by_app returns its entries in non-increasing order of
\* total_duration_seconds, apps with equal totals in the order in which
\* their app_name first occurred in the input; [(A,100),(B,50),(A,30)]
\* yields [(A,130),(B,50)].
C9_DescendingFirstSeenTies ==
    agg.done =>
        /\ \A i, j \in 1..Len(agg.out) :
             i < j =>
               /\ agg.out[i].total_duration_seconds >= agg.out[j].total_duration_seconds
               /\ (agg.out[i].total_duration_seconds = agg.out[j].total_duration_seconds
                   => FirstSeen(usage_data, agg.out[i].app_name)
                        < FirstSeen(usage_data, agg.out[j].app_name))
        /\ (usage_data = <<[app_name |-> "A", duration_seconds |-> 100],
                           [app_name |-> "B", duration_seconds |-> 50],
                           [app_name |-> "A", duration_seconds |-> 30]>>
            => agg.out = <<[app_name |-> "A", total_duration_seconds |-> 130],
                           [app_name |-> "B", total_duration_seconds |-> 50]>>)

\* two apps tie on a total that one of them reached over several records
C9_TieBetweenApps ==
    /\ agg.done
    /\ Len(agg.out) < Len(usage_data)
    /\ \E i \in 1..(Len(agg.out) - 1) :
         agg.out[i].total_duration_seconds = agg.out[i + 1].total_duration_seconds

\* C10: for a record sequence and any permutation of it aggregate_by_app
\* yields the same set of (app_name, total_duration_seconds) pairs, and the
\* two outputs are identical except possibly in the relative order of apps
\* whose totals are equal.
C10_PermutationInvariant ==
    (agg.done /\ perm_agg.done) =>
        /\ {agg.out[i] : i \in 1..Len(agg.out)}
             = {perm_agg.out[i] : i \in 1..Len(perm_agg.out)}
        /\ Len(agg.out) = Len(perm_agg.out)
        /\ \A i \in 1..Len(agg.out) :
             agg.out[i].total_duration_seconds = perm_agg.out[i].total_duration_seconds

\* a reordered input gave the tied apps in another order
C10_ReorderedTie ==
    /\ agg.done
    /\ perm_agg.done
    /\ perm_data # usage_data
    /\ agg.out # perm_agg.out

\* the records of data that start on date d (those without start_time on none)
OnDate(data, d) ==
    SelectSeq(data, LAMBDA r : r.start_time # NULL /\ r.start_time \div DaySeconds = d)

OfApp(data, app) == SelectSeq(data, LAMBDA r : r.app_name = app)

DatesOf(data) ==
    {data[i].start_time \div DaySeconds : i \in {k \in 1..Len(data) : data[k].start_time # NULL}}

\* C11: in the daily breakdown a record whose start_time is absent
\* contributes to no day bucket: no bucket total and no per-app total
\* includes its duration, no bucket is created for it, and it raises no error.
C11_UndatedRecordInNoBucket ==
    daily.done =>
        /\ {daily.out[i].date : i \in 1..Len(daily.out)} = DatesOf(daily_in)
        /\ Len(daily.out) = Cardinality(DatesOf(daily_in))
        /\ \A i \in 1..Len(daily.out) :
             LET b == daily.out[i]
             IN  /\ b.total_duration_seconds
                      = SumOf(OnDate(daily_in, b.date), "duration_seconds")
                 /\ \A k \in 1..Len(b.apps) :
                      b.apps[k].total_duration_seconds
                        = SumOf(OfApp(OnDate(daily_in, b.date), b.apps[k].app_name),
                                "duration_seconds")

\* a breakdown was built from dated records and one without start_time
C11_UndatedAmongDated ==
    /\ daily.done
    /\ daily.out # <<>>
    /\ \E i \in 1..Len(daily_in) :
         daily_in[i].start_time = NULL /\ daily_in[i].duration_seconds > 0

\* C12: every day bucket's total_duration_seconds is the sum of the
\* durations of all records that start on that date, over all apps, and is
\* the same for every topN >= 1; topN only limits the listed apps to at most
\* topN entries, in descending order of per-app total, and the buckets are
\* ordered by date descending.
C12_DayTotalIgnoresTopN ==
    daily.done =>
        /\ \A i \in 1..Len(daily.out) :
             LET b == daily.out[i]
                 day_apps == AppsOf(OnDate(daily_in, b.date))
                 listed == AppsOf(b.apps)
                 AppSum(app) == SumOf(OfApp(OnDate(daily_in, b.date), app),
                                      "duration_seconds")
             IN  /\ b.total_duration_seconds
                      = SumOf(OnDate(daily_in, b.date), "duration_seconds")
                 /\ Len(b.apps) = IF top_apps < Cardinality(day_apps)
                                  THEN top_apps ELSE Cardinality(day_apps)
                 /\ Cardinality(listed) = Len(b.apps)
                 /\ listed \subseteq day_apps
                 /\ \A k \in 1..Len(b.apps) :
                      b.apps[k].total_duration_seconds = AppSum(b.apps[k].app_name)
                 /\ \A k \in 1..(Len(b.apps) - 1) :
                      b.apps[k].total_duration_seconds
                        >= b.apps[k + 1].total_duration_seconds
                 /\ \A app \in day_apps \ listed : \A k \in 1..Len(b.apps) :
                      AppSum(app) <= b.apps[k].total_duration_seconds
        /\ \A i \in 1..(Len(daily.out) - 1) : daily.out[i].date > daily.out[i + 1].date
        /\ \A n \in 1..(MaxTop + 1) :
             LET other == get_daily_breakdown(daily_in, n)
             IN  /\ Len(other) = Len(daily.out)
                 /\ \A i \in 1..Len(other) :
                      /\ other[i].date = daily.out[i].date
                      /\ other[i].total_duration_seconds
                           = daily.out[i].total_duration_seconds

\* a day with more apps than top_apps was listed, among several days
C12_TruncatedDay ==
    /\ daily.done
    /\ Len(daily.out) >= 2
    /\ \E i \in 1..Len(daily.out) :
         /\ Len(daily.out[i].apps) = top_apps
         /\ Cardinality(AppsOf(OnDate(daily_in, daily.out[i].date))) > top_apps

\* C13: get_app_usage returns exactly the rows of stream '/app/usage' with
\* a non-null app identifier whose start is >= the start bound and whose
\* end is <= the end bound (both inclusive, in native units, when given),
\* ordered by start time descending, each with duration_seconds equal to
\* end minus start, or 0 when that difference is null.
C13_FilterOrderDuration ==
    q_result.done =>
        LET rows == q_result.rows
            out == q_result.out
            lower == timestamp(q_start) - 978307200
            upper == timestamp(q_end) - 978307200
            Selected(r) ==
                /\ r.ZSTREAMNAME = "/app/usage"
                /\ r.ZVALUESTRING # NullString
                /\ q_start # None => (r.ZSTARTDATE # NULL /\ r.ZSTARTDATE >= lower)
                /\ q_end # None => (r.ZENDDATE # NULL /\ r.ZENDDATE <= upper)
        IN  /\ {rows[i] : i \in 1..Len(rows)} = {r \in zobject : Selected(r)}
            /\ Len(rows) = Cardinality({r \in zobject : Selected(r)})
            /\ Len(out) = Len(rows)
            /\ \A i \in 1..(Len(rows) - 1) :
                 \/ rows[i + 1].ZSTARTDATE = NULL
                 \/ rows[i].ZSTARTDATE # NULL
                      /\ rows[i].ZSTARTDATE >= rows[i + 1].ZSTARTDATE
            /\ \A i \in 1..Len(out) :
                 /\ out[i].app_name = rows[i].ZVALUESTRING
                 /\ out[i].duration_seconds =
                      IF rows[i].ZSTARTDATE = NULL \/ rows[i].ZENDDATE = NULL THEN 0
                      ELSE rows[i].ZENDDATE - rows[i].ZSTARTDATE
                 /\ (out[i].start_time = None) = (rows[i].ZSTARTDATE = NULL)
                 /\ (out[i].end_time = None) = (rows[i].ZENDDATE = NULL)

\* a bounded query kept some rows of a table and left others out, among
\* them a row of another stream or without app identifier
C13_BoundedQueryFiltered ==
    /\ q_result.done
    /\ q_start # None
    /\ Len(q_result.rows) >= 1
    /\ \E r \in zobject : r.ZSTREAMNAME # "/app/usage" \/ r.ZVALUESTRING = NullString
    /\ \E r \in zobject :
         /\ r.ZSTREAMNAME = "/app/usage"
         /\ r.ZVALUESTRING # NullString
         /\ \A i \in 1..Len(q_result.rows) : q_result.rows[i] # r

\* a record as a client sees it: datetimes compare by their reading
Seen(record) ==
    <<record.app_name, record.duration_seconds,
      record.start_time.wall, record.end_time.wall>>

\* C14: for the same set of records and the same optional bounds,
\* get_server_usage returns the same records as get_app_usage, in
\* start-time-descending order, with timestamps rebuilt from their stored
\* text; and it returns an empty sequence when the server store file does
\* not exist.
C14_ServerMirrorsSnapshot ==
    (q_result.done /\ s_result.done) =>
        IF ~server_exists THEN s_result.out = <<>>
        ELSE LET local == q_result.out
                 server == s_result.out
             IN  /\ Len(server) = Len(local)
                 /\ {Seen(server[i]) : i \in 1..Len(server)}
                      = {Seen(local[i]) : i \in 1..Len(local)}
                 /\ \A i \in 1..(Len(server) - 1) :
                      \/ server[i + 1].start_time = None
                      \/ server[i].start_time # None
                           /\ server[i].start_time.wall >= server[i + 1].start_time.wall

\* C18: every record produced by extraction has duration_seconds >= 0, also
\* for a source row whose end precedes its start: the row is rejected or its
\* duration is clamped to zero, so that no aggregate total is reduced by it.
C18_DurationNeverNegative ==
    q_result.done =>
        /\ \A i \in 1..Len(q_result.out) : q_result.out[i].duration_seconds >= 0
        /\ LET totals == aggregate_by_app(q_result.out)
           IN  \A k \in 1..Len(totals) : totals[k].total_duration_seconds >= 0

Protected == {"/upload", "/usage", "/summary", "/daily", "/export"}

\* C15: no request to /upload, /usage, /summary, /daily or /export reaches
\* its handler unless the X-API-Key header equals the configured server key;
\* a server with no configured key answers every such request with 500,
\* distinct from the missing-key (401) and wrong-key (403) outcomes, and
\* /health is served without a key.
C15_HandlerNeedsServerKey ==
    /\ \A pair \in reached :
         pair[1] \in Protected =>
           /\ pair[2] = API_KEY
           /\ API_KEY \notin {NoneStr, ""}
    /\ response.route \in Protected =>
         /\ API_KEY \in {NoneStr, ""} =>
              response.status = 500 /\ ~response.handled
         /\ (API_KEY \notin {NoneStr, ""} /\ response.api_key \in {NoneStr, ""}) =>
              response.status = 401 /\ ~response.handled
         /\ (API_KEY \notin {NoneStr, ""} /\ response.api_key \notin {NoneStr, "", API_KEY}) =>
              response.status = 403 /\ ~response.handled
         /\ (API_KEY \notin {NoneStr, ""} /\ response.api_key = API_KEY) =>
              response.handled
    /\ response.route = "/health" => response.handled /\ response.status = 200

\* an unconfigured server has answered a request that carried a key to a
\* protected route, after serving /health without one
C15_UnconfiguredServerAsked ==
    /\ API_KEY \in {NoneStr, ""}
    /\ response.route \in Protected
    /\ response.api_key = "secret"
    /\ <<"/health", NoneStr>> \in reached

\* C16: the original source store file is never modified by any operation of
\* the pipeline: every step of a CLI, sync-client or API invocation leaves
\* its content as it was; only the system that owns the file changes it.
C16_SourceNeverModified ==
    [][SystemWrites \/ files'[DEFAULT_DB_PATH] = files[DEFAULT_DB_PATH]]_vars

\* an invocation has copied the source, queried the snapshot and removed it,
\* and another has a snapshot on disk that is older than the source
C16_SnapshotsTakenAndRemoved ==
    /\ runs >= 2
    /\ fetched # "none"
    /\ temp_db # NULL
    /\ files[temp_db] # NULL
    /\ files[temp_db] # files[DEFAULT_DB_PATH]
    /\ \E path \in Paths \ {DEFAULT_DB_PATH, temp_db} : path <= mkdtemps /\ files[path] = NULL

\* C17: a CLI invocation ends with a non-zero exit status on every fatal
\* error (source file absent, permission denied, database error, any other
\* exception) and with exit status zero when the query succeeds but yields
\* no records; the error handlers never turn the no-data exit into a
\* non-zero status.
C17_ExitStatus ==
    (spc = "done" /\ caller \in {"cli", "sync"}) =>
        /\ outcome.kind \in {"exit", "end"}
        /\ ~env.source_exists => outcome = Exit(1)
        /\ raised # "none" => (outcome.kind = "exit" /\ outcome.status # 0)
        /\ (fetched = "empty" /\ raised = "none") => outcome = Exit(0)
        /\ outcome.status # 0 => (~env.source_exists \/ raised # "none")

\* a second invocation, of the CLI, ended on the no-data exit
C17_NoDataAfterFailure ==
    /\ spc = "done"
    /\ caller = "cli"
    /\ fetched = "empty"
    /\ outcome = Exit(0)
    /\ runs >= 2

\* the example input [(A,100),(B,50),(A,30)]
ExampleRecords ==
    <<[app_name |-> "A", duration_seconds |-> 100],
      [app_name |-> "B", duration_seconds |-> 50],
      [app_name |-> "A", duration_seconds |-> 30]>>

\* C19: exporting aggregate_by_app of [(A,100),(B,50),(A,30)] in summary
\* CSV mode writes the header
\* app_name,total_duration_seconds,total_duration_formatted followed by the
\* rows A,130,2m10s and B,50,50s.
C19_ExampleRowsWithoutSpace ==
    export_in = ExampleRecords =>
        /\ csv_file.done =>
             csv_file.lines = <<"app_name,total_duration_seconds,total_duration_formatted",
                                "A,130,2m10s", "B,50,50s">>
        /\ csv_body.done =>
             csv_body.lines = <<"app_name,total_duration_seconds,total_duration_formatted",
                                "A,130,2m10s", "B,50,50s">>

\* C19 as the code has it: the rows are A,130,2m 10s and B,50,50s, the parts
\* of a formatted duration being separated by one space; the CLI and the API
\* write the same lines.
C19_ExampleRowsWithSpace ==
    export_in = ExampleRecords =>
        /\ csv_file.done =>
             /\ csv_file.written
             /\ csv_file.lines = <<"app_name,total_duration_seconds,total_duration_formatted",
                                   "A,130,2m 10s", "B,50,50s">>
        /\ csv_body.done =>
             csv_body.lines = <<"app_name,total_duration_seconds,total_duration_formatted",
                                "A,130,2m 10s", "B,50,50s">>

\* the example has been exported by the CLI and by the API
C19_ExampleExported ==
    /\ export_in = ExampleRecords
    /\ csv_file.done
    /\ csv_body.done

\* C20: epoch conversion round-trips: for every canonical timestamp t,
\* apple_time_to_datetime(datetime_to_apple_time(t)) equals t, the two
\* conversions adding and subtracting the same fixed offset 978307200, and
\* apple_time_to_datetime(None) is None.
C20_RoundTrip ==
    /\ (t_in # None /\ native.done) =>
         native.out + 978307200 = timestamp(t_in)
    /\ (t_in # None /\ t_out.done) =>
         /\ t_out.out = fromtimestamp(native.out + 978307200)
         /\ t_out.out.wall = t_in.wall
    /\ (t_in = None /\ t_out.done) => t_out.out = None

\* the store contents that some number of whole batches produced
WholeBatchStores == {<<>>} \cup {log[i].after : i \in 1..Len(log)}

\* C21: a batch passed to insert_usage_records is persisted atomically: its
\* inserts run in one transaction committed once at the end, so a concurrent
\* get_server_usage never observes only part of a batch, and if an insert of
\* the batch fails with an error other than a uniqueness violation, none of
\* the batch's rows are stored.
C21_BatchAtomic ==
    /\ observed.done =>
         /\ observed.rows \in WholeBatchStores \cup {store}
         /\ Len(observed.rows) <= Len(store)
         /\ SubSeq(store, 1, Len(observed.rows)) = observed.rows
    /\ store \in WholeBatchStores
    /\ \A i \in 1..Len(log) :
         /\ log[i].status = "error" => log[i].after = log[i].before
         /\ log[i].status = "ok" =>
              /\ Len(log[i].after) = Len(log[i].before) + log[i].records_inserted
              /\ SubSeq(log[i].after, 1, Len(log[i].before)) = log[i].before

\* a reader looked while a batch was half inserted, and that batch then
\* failed after its first row had been inserted
C21_ReadDuringFailedBatch ==
    /\ observed.done
    /\ observed.during # <<>>
    /\ \E i \in 1..Len(log) :
         /\ log[i].status = "error"
         /\ Len(log[i].records) >= 2
         /\ log[i].records[1] = observed.during[1]

\* C22: in the GET /summary response, total_duration_seconds is the sum of
\* the total_duration_seconds of exactly the apps listed in the response and
\* app_count is the length of that list, for every value of top, given or
\* not: the total is taken after the truncation to top.
C22_SummaryTotalOfListed ==
    summary.done =>
        /\ summary.total_duration_seconds = SumOf(summary.apps, "total_duration_seconds")
        /\ summary.app_count = Len(summary.apps)
        /\ summary.total_duration_formatted = format_duration(summary.total_duration_seconds)

\* a summary cut to fewer apps than were used, the apps left out having
\* been used for some time
C22_TruncatedSummary ==
    /\ summary.done
    /\ summary_top # NULL
    /\ summary.app_count = summary_top
    /\ summary.app_count < Cardinality(AppsOf(summary_in))
    /\ summary.total_duration_seconds < SumOf(summary_in, "duration_seconds")

====
